---- MODULE Spec2Model ----
(***************************************************************************)
(* Model of django_gcp_log_groups/gcp_logging.py: the per-request logging  *)
(* middleware (GCPLoggingMiddleware), its per-request handler (GCPHandler) *)
(* and the module-level state they share (MLOGLEVELS, the root logger's    *)
(* handler list, the two transports).                                      *)
(*                                                                         *)
(* The calls of __call__ made by the server's request threads interleave   *)
(* at the points where control leaves the middleware: the body of __call__ *)
(* up to get_response, every logging call made by application code inside *)
(* get_response, the end of get_response, make_parent_log, and the removal *)
(* of the handler.                                                         *)
(***************************************************************************)
EXTENDS Integers, Sequences, FiniteSets, TLC

\* ---------------------------------------------------------------- bounds
\* NumThreads: request threads of the server, so at most that many calls of
\* __call__ are in progress at once; MaxRequests: calls of __call__ in a run;
\* MaxLines: logging calls made by application code in a run.
NumThreads == 2
MaxRequests == 2
MaxLines == 2
\* BatchCap: the batch cap of a background worker.
BatchCap == 2
\* HdrLen: greatest length of a trace header tried by SpecTrace.
HdrLen == 4

\* ------------------------------------------------------- Python values
\* Optional values: None is the empty tuple, a present value x is <<x>>.
None == <<>>
Some(x) == <<x>>

\* logging.DEBUG .. logging.CRITICAL
DEBUG == 10
INFO == 20
WARNING == 30
ERROR == 40
CRITICAL == 50

LevelNames == {"DEBUG", "INFO", "WARNING", "ERROR", "CRITICAL"}

\* getattr(logging, record.levelname)
LevelNo(name) ==
    CASE name = "DEBUG" -> DEBUG
      [] name = "INFO" -> INFO
      [] name = "WARNING" -> WARNING
      [] name = "ERROR" -> ERROR
      [] name = "CRITICAL" -> CRITICAL

\* logging.getLevelName(level)
getLevelName(level) ==
    CASE level = DEBUG -> "DEBUG"
      [] level = INFO -> "INFO"
      [] level = WARNING -> "WARNING"
      [] level = ERROR -> "ERROR"
      [] level = CRITICAL -> "CRITICAL"

\* LOGGER.setLevel(logging.INFO)
LOGGER_level == INFO

\* The code points of a level name, as Python compares str values.
CodePoints(name) ==
    CASE name = "CRITICAL" -> <<67, 82, 73, 84, 73, 67, 65, 76>>
      [] name = "DEBUG" -> <<68, 69, 66, 85, 71>>
      [] name = "ERROR" -> <<69, 82, 82, 79, 82>>
      [] name = "INFO" -> <<73, 78, 70, 79>>
      [] name = "WARNING" -> <<87, 65, 82, 78, 73, 78, 71>>

RECURSIVE SeqLess(_, _)
\* Lexicographic order on sequences of code points (str.__lt__).
SeqLess(a, b) ==
    IF b = <<>> THEN FALSE
    ELSE IF a = <<>> THEN TRUE
    ELSE IF Head(a) # Head(b) THEN Head(a) < Head(b)
    ELSE SeqLess(Tail(a), Tail(b))

StrLess(x, y) == SeqLess(CodePoints(x), CodePoints(y))

RECURSIVE PyMin(_)
\* The builtin min() on a non-empty list of str: the first smallest item.
PyMin(xs) ==
    IF Len(xs) = 1 THEN xs[1]
    ELSE LET m == PyMin(Tail(xs))
         IN  IF StrLess(m, Head(xs)) THEN m ELSE Head(xs)

\* ------------------------------------------------------ trace derivation
\* Strings of the trace header are sequences of one-character strings.
RECURSIVE SplitFirst(_, _)
\* The part of s before the first sep (all of s when sep does not occur).
SplitFirst(s, sep) ==
    IF s = <<>> THEN <<>>
    ELSE IF Head(s) = sep THEN <<>>
    ELSE <<Head(s)>> \o SplitFirst(Tail(s), sep)

RECURSIVE PySplit(_, _)
\* str.split(sep): the list of the parts of s between occurrences of sep.
PySplit(s, sep) ==
    LET first == SplitFirst(s, sep)
    IN  IF Len(first) = Len(s) THEN <<first>>
        ELSE <<first>> \o PySplit(SubSeq(s, Len(first) + 2, Len(s)), sep)

\* The values of request.META.get("HTTP_X_CLOUD_TRACE_CONTEXT") that are tried.
Headers ==
    { None,
      Some(<<"a", "/", "b", ";", "o", "=", "1">>) }

\* chars = "abcdefghijklmnopqrstuvwxyz1234567890"
chars ==
    << "a", "b", "c", "d", "e", "f", "g", "h", "i", "j", "k", "l", "m", "n", "o",
       "p", "q", "r", "s", "t", "u", "v", "w", "x", "y", "z", "1", "2", "3", "4",
       "5", "6", "7", "8", "9", "0" >>

TraceLen == 32

\* "".join([random.choice(chars) for x in range(0, 32)]), for the runs in
\* which each of the 32 draws of the r-th request returns the r-th
\* character of chars (so that different requests draw different traces).
RandomTrace(r) == [x \in 1..TraceLen |-> chars[((r - 1) % Len(chars)) + 1]]

\* f"projects/{PROJECT}/traces/{trace}"
ProjectTrace(trace) == <<"projects/", "PROJECT", "/traces/">> \o trace

\* DeriveTrace with span = rawTrace[1], the ";o=..." part not cut off.
DeriveTrace_SpanNotCut(useX, hdr, rnd) ==
    LET got == IF useX THEN hdr ELSE None
        truthy == got # None /\ got[1] # <<>>
        rawTrace == PySplit(got[1], "/")
    IN  IF truthy
        THEN [trace |-> ProjectTrace(rawTrace[1]),
              span |-> IF Len(rawTrace) > 1 THEN Some(rawTrace[2]) ELSE None]
        ELSE [trace |-> ProjectTrace(rnd), span |-> None]

\* Lines 84-98 of __call__: the [trace, span] of a request with header hdr
\* when the synthesized identifier would be rnd.
DeriveTrace(useX, hdr, rnd) ==
    LET got == IF useX THEN hdr ELSE None
        truthy == got # None /\ got[1] # <<>>
        rawTrace == PySplit(got[1], "/")
    IN  IF truthy
        THEN [trace |-> ProjectTrace(rawTrace[1]),
              span |-> IF Len(rawTrace) > 1
                       THEN Some(PySplit(rawTrace[2], ";")[1])
                       ELSE None]
        ELSE [trace |-> ProjectTrace(rnd), span |-> None]

\* ---------------------------------------------------------------- state
VARIABLES
    USE_X_HTTP_CLOUD_CONTEXT,  \* settings.GCP_LOG_USE_X_HTTP_CLOUD_CONTEXT or False
    TRANSPORT_PARENT,          \* [exists, queue]: None, or the parent transport
    TRANSPORT_CHILD,           \* the entries sent on the child transport
    MLOGLEVELS,                \* the module-level list of recorded level names
    LOGGER_handlers,           \* LOGGER.handlers of the root logger
    reqs,                      \* reqs[r]: the locals of the r-th call of __call__
    nlines,                    \* number of logging calls made so far
    sink                       \* sink[stream]: the entries written to the log sink

vars == <<USE_X_HTTP_CLOUD_CONTEXT, TRANSPORT_PARENT, TRANSPORT_CHILD,
          MLOGLEVELS, LOGGER_handlers, reqs, nlines, sink>>

Requests == 1..Len(reqs)

\* The HTTP status codes get_response is taken to produce.
StatusCodes == {200, 404, 500}

\* Requests that are inside __call__.
InFlight == {r \in Requests : reqs[r].pc \in {"active", "finalizing", "removing"}}

Init ==
    /\ USE_X_HTTP_CLOUD_CONTEXT \in BOOLEAN
    /\ TRANSPORT_PARENT = [exists |-> ~USE_X_HTTP_CLOUD_CONTEXT, queue |-> <<>>]
    /\ TRANSPORT_CHILD = <<>>
    /\ MLOGLEVELS = <<>>
    /\ LOGGER_handlers = <<>>
    /\ reqs = <<>>
    /\ nlines = 0
    /\ sink = [child |-> <<>>, parent |-> <<>>]

\* ------------------------------------------------------------ transports
\* BackgroundThreadTransport.send(message, ..., severity, trace, span_id,
\* http_request): the entry is put on the transport's queue.
send(queue, entry) == Append(queue, entry)

\* -------------------------------------------------------------- GCPHandler
\* GCPHandler whose constructor does not keep the span.
GCPHandler_DropsSpan(id, trace, span) ==
    [id |-> id, trace |-> trace, span |-> None, level |-> DEBUG]

\* GCPHandler(trace=trace, span=span) followed by setLevel(logging.DEBUG);
\* id tells the handler objects of different requests apart.
GCPHandler(id, trace, span) ==
    [id |-> id, trace |-> trace, span |-> span, level |-> DEBUG]

\* LOGGER.addHandler(h)
addHandler(hs, h) ==
    IF \E i \in DOMAIN hs : hs[i] = h THEN hs ELSE Append(hs, h)

\* removeHandler that takes the newest handler off the list, whichever it is.
removeHandler_Newest(hs, h) ==
    IF hs = <<>> THEN hs ELSE SubSeq(hs, 1, Len(hs) - 1)

\* LOGGER.removeHandler(h)
removeHandler(hs, h) == SelectSeq(hs, LAMBDA x : x # h)

\* emit with the level test guarding only the append to MLOGLEVELS.
emit_SendsBelowLevel(h, record, st) ==
    [ml |-> IF LevelNo(record.levelname) < LOGGER_level
            THEN st.ml
            ELSE Append(st.ml, record.levelname),
     child |-> Append(st.child,
                      [message |-> Some(record.msg),
                       severity |-> record.levelname,
                       trace |-> h.trace,
                       span_id |-> h.span,
                       http_request |-> None])]

\* GCPHandler.emit(record) on st = [ml: MLOGLEVELS, child: TRANSPORT_CHILD].
emit(h, record, st) ==
    IF LevelNo(record.levelname) < LOGGER_level
    THEN st
    ELSE [ml |-> Append(st.ml, record.levelname),
          child |-> send(st.child,
                         [message |-> Some(record.msg),
                          severity |-> record.levelname,
                          trace |-> h.trace,
                          span_id |-> h.span,
                          http_request |-> None])]

RECURSIVE callHandlers(_, _, _)
\* The root logger hands the record to each of its handlers in turn
\* (a handler takes it when the record's level is at least the handler's).
callHandlers(hs, record, st) ==
    IF hs = <<>> THEN st
    ELSE callHandlers(Tail(hs), record,
                      IF LevelNo(record.levelname) >= Head(hs).level
                      THEN emit(Head(hs), record, st)
                      ELSE st)

\* ---------------------------------------------------- GCPLoggingMiddleware
\* ParentSeverity with the status thresholds taken as strict (> for >=).
ParentSeverity_StrictThresholds(ml, status_code) ==
    IF Len(ml) = 0
    THEN IF status_code > 500 THEN getLevelName(ERROR)
         ELSE IF status_code > 400 THEN getLevelName(WARNING)
         ELSE getLevelName(INFO)
    ELSE PyMin(ml)

\* Lines 135-142 of make_parent_log: the severity of the parent entry.
ParentSeverity(ml, status_code) ==
    IF Len(ml) = 0
    THEN IF status_code >= 500 THEN getLevelName(ERROR)
         ELSE IF status_code >= 400 THEN getLevelName(WARNING)
         ELSE getLevelName(INFO)
    ELSE PyMin(ml)

\* ResetLevels as del MLOGLEVELS[1:], which keeps the first item.
ResetLevels_KeepsFirst(ml) == IF ml = <<>> THEN <<>> ELSE <<Head(ml)>>

\* Line 144 of make_parent_log: del MLOGLEVELS[:]
ResetLevels(ml) == <<>>

\* SendParent with the send made whatever the mode.
SendParent_AnyMode(useX, parent, severity, trace, span, request, status_code) ==
    [parent EXCEPT !.queue =
         Append(@, [message |-> None,
                    severity |-> severity,
                    trace |-> trace,
                    span_id |-> span,
                    http_request |-> Some([request |-> request,
                                           status |-> status_code])])]

\* SendParent with the entry sent twice.
SendParent_Twice(useX, parent, severity, trace, span, request, status_code) ==
    SendParent_AnyMode(useX,
                       SendParent_AnyMode(useX, parent, severity, trace, span,
                                          request, status_code),
                       severity, trace, span, request, status_code)

\* Lines 146-156 of make_parent_log: the parent transport after the call.
SendParent(useX, parent, severity, trace, span, request, status_code) ==
    IF ~useX
    THEN [parent EXCEPT !.queue =
              send(@, [message |-> None,
                       severity |-> severity,
                       trace |-> trace,
                       span_id |-> span,
                       http_request |-> Some([request |-> request,
                                              status |-> status_code])])]
    ELSE parent

\* __call__, lines 84-104, on a free request thread: derive trace and span,
\* build the handler and add it to the root logger; the call then enters
\* get_response. The new call is request Len(reqs) + 1; its trace header is
\* one of hdrs and the identifier random.choice would build is one of rnds.
CallStartWith(hdrs, rnds) ==
    /\ Cardinality(InFlight) < NumThreads
    /\ Len(reqs) < MaxRequests
    /\ \E hdr \in hdrs, rnd \in rnds :
         LET r == Len(reqs) + 1
             d == DeriveTrace(USE_X_HTTP_CLOUD_CONTEXT, hdr, rnd)
         IN  /\ reqs' = Append([q \in Requests |->
                                   IF q \in InFlight
                                   THEN [reqs[q] EXCEPT !.alone = FALSE]
                                   ELSE reqs[q]],
                               [pc |-> "active",
                                header |-> hdr,
                                trace |-> d.trace,
                                span |-> d.span,
                                response |-> None,
                                returned |-> None,
                                severity |-> None,
                                tracked |-> <<>>,
                                own |-> <<>>,
                                logRaised |-> FALSE,
                                trail |-> <<"register">>,
                                alone |-> InFlight = {}])
             /\ LOGGER_handlers' =
                    addHandler(LOGGER_handlers, GCPHandler(r, d.trace, d.span))
    /\ UNCHANGED <<sink, USE_X_HTTP_CLOUD_CONTEXT, TRANSPORT_PARENT, TRANSPORT_CHILD,
                   MLOGLEVELS, nlines>>

\* A call of __call__ starts. The header is an input only when it is read
\* (line 86).
CallStart ==
    CallStartWith(IF USE_X_HTTP_CLOUD_CONTEXT THEN Headers ELSE {None},
                  {RandomTrace(Len(reqs) + 1)})

\* Application code running inside get_response of request r logs one line
\* at level lvl; the record reaches the handlers of the root logger.
AppLog(r, lvl) ==
    /\ reqs[r].pc = "active"
    /\ nlines < MaxLines
    /\ LET record == [levelname |-> lvl, msg |-> <<r, nlines + 1>>]
           st == callHandlers(LOGGER_handlers, record,
                              [ml |-> MLOGLEVELS, child |-> TRANSPORT_CHILD])
       IN  /\ MLOGLEVELS' = st.ml
           /\ TRANSPORT_CHILD' = st.child
           /\ reqs' = [reqs EXCEPT
                  ![r].own = Append(@, [n |-> nlines + 1, levelname |-> lvl]),
                  ![r].trail = IF LevelNo(lvl) >= LOGGER_level
                               THEN Append(@, "child")
                               ELSE @]
    /\ nlines' = nlines + 1
    /\ UNCHANGED <<sink, USE_X_HTTP_CLOUD_CONTEXT, TRANSPORT_PARENT, LOGGER_handlers>>

\* Line 106: get_response of request r returns a response with the given status.
GetResponseReturns(r, status_code) ==
    /\ reqs[r].pc = "active"
    /\ reqs' = [reqs EXCEPT ![r].pc = "finalizing",
                            ![r].response = Some(status_code)]
    /\ UNCHANGED <<sink, USE_X_HTTP_CLOUD_CONTEXT, TRANSPORT_PARENT, TRANSPORT_CHILD,
                   MLOGLEVELS, LOGGER_handlers, nlines>>

\* Line 106: get_response raises; the exception leaves __call__, which has
\* no handler for it, so lines 108-112 are not executed.
GetResponseRaises(r) ==
    /\ reqs[r].pc = "active"
    /\ reqs' = [reqs EXCEPT ![r].pc = "raised"]
    /\ UNCHANGED <<sink, USE_X_HTTP_CLOUD_CONTEXT, TRANSPORT_PARENT, TRANSPORT_CHILD,
                   MLOGLEVELS, LOGGER_handlers, nlines>>

\* The calls make_parent_log makes, in program order: the reset of
\* MLOGLEVELS (line 144), then the send on the parent transport (line 147).
FinalizeTrail(useX) ==
    IF useX THEN <<"reset">> ELSE <<"reset", "parent">>

\* make_parent_log with the handler taken off the root logger before the
\* parent entry is sent.
make_parent_log_RemovesHandlerFirst(r) ==
    /\ reqs[r].pc = "finalizing"
    /\ LET status_code == reqs[r].response[1]
           severity == ParentSeverity(MLOGLEVELS, status_code)
       IN  /\ MLOGLEVELS' = ResetLevels(MLOGLEVELS)
           /\ TRANSPORT_PARENT' =
                  SendParent(USE_X_HTTP_CLOUD_CONTEXT, TRANSPORT_PARENT, severity,
                             reqs[r].trace, reqs[r].span, r, status_code)
           /\ reqs' = [reqs EXCEPT ![r].pc = "removing",
                                   ![r].severity = Some(severity),
                                   ![r].tracked = MLOGLEVELS,
                                   ![r].trail =
                                       @ \o FinalizeTrail(USE_X_HTTP_CLOUD_CONTEXT)]
    /\ LOGGER_handlers' =
           removeHandler(LOGGER_handlers,
                         GCPHandler(r, reqs[r].trace, reqs[r].span))
    /\ UNCHANGED <<sink, USE_X_HTTP_CLOUD_CONTEXT, TRANSPORT_CHILD, nlines>>

\* Line 108: make_parent_log(trace, span, request, start_time, response).
make_parent_log(r) ==
    /\ reqs[r].pc = "finalizing"
    /\ LET status_code == reqs[r].response[1]
           severity == ParentSeverity(MLOGLEVELS, status_code)
       IN  /\ MLOGLEVELS' = ResetLevels(MLOGLEVELS)
           /\ TRANSPORT_PARENT' =
                  SendParent(USE_X_HTTP_CLOUD_CONTEXT, TRANSPORT_PARENT, severity,
                             reqs[r].trace, reqs[r].span, r, status_code)
           /\ reqs' = [reqs EXCEPT ![r].pc = "removing",
                                   ![r].severity = Some(severity),
                                   ![r].tracked = MLOGLEVELS,
                                   ![r].trail =
                                       @ \o FinalizeTrail(USE_X_HTTP_CLOUD_CONTEXT)]
    /\ UNCHANGED <<sink, USE_X_HTTP_CLOUD_CONTEXT, TRANSPORT_CHILD, LOGGER_handlers,
                   nlines>>

\* RemoveAndReturn without the return statement: the call returns None.
RemoveAndReturn_ReturnsNone(r) ==
    /\ reqs[r].pc = "removing"
    /\ LOGGER_handlers' =
           removeHandler(LOGGER_handlers,
                         GCPHandler(r, reqs[r].trace, reqs[r].span))
    /\ reqs' = [reqs EXCEPT ![r].pc = "returned",
                            ![r].trail = @ \o <<"unregister", "return">>]
    /\ UNCHANGED <<sink, USE_X_HTTP_CLOUD_CONTEXT, TRANSPORT_PARENT, TRANSPORT_CHILD,
                   MLOGLEVELS, nlines>>

\* Lines 110-112: remove the request's handler and return the response.
RemoveAndReturn(r) ==
    /\ reqs[r].pc = "removing"
    /\ LOGGER_handlers' =
           removeHandler(LOGGER_handlers,
                         GCPHandler(r, reqs[r].trace, reqs[r].span))
    /\ reqs' = [reqs EXCEPT ![r].pc = "returned",
                            ![r].returned = reqs[r].response,
                            ![r].trail = @ \o <<"unregister", "return">>]
    /\ UNCHANGED <<sink, USE_X_HTTP_CLOUD_CONTEXT, TRANSPORT_PARENT, TRANSPORT_CHILD,
                   MLOGLEVELS, nlines>>

Next ==
    \/ CallStart
    \/ \E r \in Requests, lvl \in LevelNames : AppLog(r, lvl)
    \/ \E r \in Requests, s \in StatusCodes : GetResponseReturns(r, s)
    \/ \E r \in Requests : GetResponseRaises(r)
    \/ \E r \in Requests : make_parent_log(r)
    \/ \E r \in Requests : RemoveAndReturn(r)

Spec == Init /\ [][Next]_vars

\* ------------------------------------------------------- trace derivation
\* The characters of which the trace headers tried by SpecTrace are made.
HdrChars == {"a", "/", ";"}

\* request.META.get("HTTP_X_CLOUD_TRACE_CONTEXT"): no header, or any string
\* over HdrChars of length at most HdrLen.
AllHeaders ==
    {None} \cup {Some(h) : h \in UNION {[1..n -> HdrChars] : n \in 0..HdrLen}}

\* Some of the identifiers the 32 calls of random.choice(chars) can build.
RandomTraces == {RandomTrace(k) : k \in {1, 26, 27, 36}}

\* The first call of __call__ of the process, with any header.
TraceStart ==
    /\ reqs = <<>>
    /\ CallStartWith(AllHeaders, RandomTraces)

NextTrace == TraceStart

\* The derivation of trace and span (lines 84-98) applied to every header.
SpecTrace == Init /\ [][NextTrace]_vars

\* ------------------------------------------------- failing transport sends
\* A logging call of request r at level lvl during which the send of the
\* k-th handler's emit raises: the handlers before it have emitted, emit of
\* the k-th has appended to MLOGLEVELS (line 67), and the exception of
\* TRANSPORT_CHILD.send (line 69) leaves emit, which does not catch it, and
\* reaches the application's logging call.
AppLogSendRaises(r, lvl, k) ==
    /\ reqs[r].pc = "active"
    /\ nlines < MaxLines
    /\ k \in DOMAIN LOGGER_handlers
    /\ LevelNo(lvl) >= LOGGER_level
    /\ LevelNo(lvl) >= LOGGER_handlers[k].level
    /\ LET record == [levelname |-> lvl, msg |-> <<r, nlines + 1>>]
           st == callHandlers(SubSeq(LOGGER_handlers, 1, k - 1), record,
                              [ml |-> MLOGLEVELS, child |-> TRANSPORT_CHILD])
       IN  /\ MLOGLEVELS' = Append(st.ml, record.levelname)
           /\ TRANSPORT_CHILD' = st.child
           /\ reqs' = [reqs EXCEPT
                          ![r].own = Append(@, [n |-> nlines + 1, levelname |-> lvl]),
                          ![r].logRaised = TRUE]
    /\ nlines' = nlines + 1
    /\ UNCHANGED <<sink, USE_X_HTTP_CLOUD_CONTEXT, TRANSPORT_PARENT, LOGGER_handlers>>

\* make_parent_log of request r in which TRANSPORT_PARENT.send (line 147)
\* raises: the severity is computed and MLOGLEVELS emptied, and the
\* exception leaves make_parent_log and __call__, so lines 110-112 are not
\* executed.
make_parent_log_SendRaises(r) ==
    /\ reqs[r].pc = "finalizing"
    /\ ~USE_X_HTTP_CLOUD_CONTEXT
    /\ LET status_code == reqs[r].response[1]
           severity == ParentSeverity(MLOGLEVELS, status_code)
       IN  /\ MLOGLEVELS' = ResetLevels(MLOGLEVELS)
           /\ reqs' = [reqs EXCEPT ![r].pc = "raised",
                                   ![r].severity = Some(severity),
                                   ![r].tracked = MLOGLEVELS]
    /\ UNCHANGED <<sink, USE_X_HTTP_CLOUD_CONTEXT, TRANSPORT_PARENT, TRANSPORT_CHILD,
                   LOGGER_handlers, nlines>>

NextFail ==
    \/ Next
    \/ \E r \in Requests, lvl \in LevelNames, k \in 1..MaxRequests :
           AppLogSendRaises(r, lvl, k)
    \/ \E r \in Requests : make_parent_log_SendRaises(r)

\* The program when a send on a transport may raise.
SpecFail == Init /\ [][NextFail]_vars

\* ------------------------------------------------- the background workers
\* TRANSPORT_CHILD and TRANSPORT_PARENT.queue hold every entry enqueued on
\* the stream, in enqueue order; the worker of a stream has taken the first
\* Len(sink[stream]) of them off the queue.
Streams == {"child", "parent"}

Enqueued(stream) ==
    IF stream = "child" THEN TRANSPORT_CHILD ELSE TRANSPORT_PARENT.queue

\* The entries waiting on the queue of the stream.
Waiting(stream) ==
    SubSeq(Enqueued(stream), Len(sink[stream]) + 1, Len(Enqueued(stream)))

\* drain that takes the newest entries off the queue instead of the oldest.
drain_NewestFirst(queue, max_batch) ==
    IF Len(queue) <= max_batch
    THEN [i \in 1..Len(queue) |-> queue[Len(queue) + 1 - i]]
    ELSE [i \in 1..max_batch |-> queue[Len(queue) + 1 - i]]

\* drain(max_batch): removes up to max_batch entries from the front of the
\* queue and returns them in insertion order.
drain(queue, max_batch) ==
    IF Len(queue) <= max_batch THEN queue ELSE SubSeq(queue, 1, max_batch)

\* The worker loop of one stream: it drains up to max_batch entries (fewer
\* when the flush interval ends first) and on a non-empty batch calls the
\* write operation of the sink once with the batch.
WorkerLoop(stream, max_batch) ==
    /\ stream = "parent" => TRANSPORT_PARENT.exists
    /\ LET batch == drain(Waiting(stream), max_batch)
       IN /\ batch # <<>>
          /\ sink' = [sink EXCEPT ![stream] = @ \o batch]
    /\ UNCHANGED <<USE_X_HTTP_CLOUD_CONTEXT, TRANSPORT_PARENT, TRANSPORT_CHILD,
                   MLOGLEVELS, LOGGER_handlers, reqs, nlines>>

NextFifo ==
    \/ CallStart
    \/ \E r \in Requests, lvl \in LevelNames : AppLog(r, lvl)
    \/ \E r \in Requests, status_code \in StatusCodes :
           GetResponseReturns(r, status_code)
    \/ \E r \in Requests : make_parent_log(r)
    \/ \E r \in Requests : RemoveAndReturn(r)
    \/ \E stream \in Streams, max_batch \in 1..BatchCap :
           WorkerLoop(stream, max_batch)

\* The program together with the background worker of each transport.
SpecFifo == Init /\ [][NextFifo]_vars

\* ------------------------------------------------------------ vocabulary
\* reqs[r].own lists the logging calls of request r's application code;
\* reqs[r].tracked is what make_parent_log of r found in MLOGLEVELS;
\* reqs[r].alone says that no other call of __call__ overlapped request r;
\* reqs[r].trail lists the calls made by request r on the root logger, the
\* tracker and the transports, in program order, with its return.

\* The level names of the lines of request r that are at or above the
\* root logger's level, in the order they were logged.
RECURSIVE RecordedOf(_)
RecordedOf(own) ==
    IF own = <<>> THEN <<>>
    ELSE IF LevelNo(Head(own).levelname) >= LOGGER_level
         THEN <<Head(own).levelname>> \o RecordedOf(Tail(own))
         ELSE RecordedOf(Tail(own))

\* The greatest of a non-empty list of level names under
\* DEBUG < INFO < WARNING < ERROR < CRITICAL.
MaxSeverity(xs) ==
    CHOOSE x \in {xs[i] : i \in DOMAIN xs} :
        \A i \in DOMAIN xs : LevelNo(xs[i]) <= LevelNo(x)

Finalized(r) == reqs[r].severity # None

Ended(r) == reqs[r].pc \in {"returned", "raised"}

Registered(r) == \E i \in DOMAIN LOGGER_handlers : LOGGER_handlers[i].id = r

NoAbort == \A q \in Requests : reqs[q].pc # "raised"

\* The request whose application code logged the line of child entry e.
EmitterOf(e) == e.message[1][1]

\* ---------------------------------------------------------------- claims

\* C1: for a request handled with no other request in flight, whose
\* make_parent_log found in MLOGLEVELS exactly the severities recorded for
\* the request's own lines, at least one of them, the parent severity is the
\* maximum of those severities under DEBUG < INFO < WARNING < ERROR < CRITICAL.
C1_ParentSeverityIsMax ==
    \A r \in Requests :
        ( /\ Finalized(r)
          /\ reqs[r].alone
          /\ reqs[r].tracked # <<>>
          /\ reqs[r].tracked = RecordedOf(reqs[r].own) )
        => reqs[r].severity[1] = MaxSeverity(reqs[r].tracked)

\* C2: when make_parent_log finds no recorded severity in the tracker, the
\* parent severity is decided by the response status alone: ERROR for
\* status >= 500, WARNING for 400 <= status < 500, INFO otherwise.
C2_SeverityFromStatus ==
    \A r \in Requests :
        (Finalized(r) /\ reqs[r].tracked = <<>>)
        => LET status == reqs[r].response[1]
               sev == reqs[r].severity[1]
           IN  /\ status >= 500 => sev = "ERROR"
               /\ (status >= 400 /\ status < 500) => sev = "WARNING"
               /\ status < 400 => sev = "INFO"

C2_Witness ==
    \E r \in Requests :
        /\ Finalized(r)
        /\ reqs[r].tracked = <<>>
        /\ reqs[r].response = Some(404)
        /\ reqs[r].severity = Some("WARNING")

\* C3: as long as no request was aborted, the parent severity of every
\* request is the one make_parent_log computes from the severities recorded
\* for that request's own lines and from its own status, whatever other
\* requests logged or finalized meanwhile.
C3_SeverityFromOwnLinesOnly ==
    NoAbort =>
        \A r \in Requests :
            Finalized(r)
            => reqs[r].severity[1] =
                   ParentSeverity(RecordedOf(reqs[r].own), reqs[r].response[1])

\* C4: as long as no request was aborted, every entry sent to the child
\* transport carries the trace and the span of the request whose application
\* code logged the line.
C4_ChildCarriesEmittersTrace ==
    NoAbort =>
        \A i \in DOMAIN TRANSPORT_CHILD :
            LET e == TRANSPORT_CHILD[i]
            IN  /\ e.trace = reqs[EmitterOf(e)].trace
                /\ e.span_id = reqs[EmitterOf(e)].span

\* C5: once a call of __call__ has ended, by returning or by the exception
\* of get_response, the handler it added is no longer registered on the
\* root logger.
C5_HandlerRemovedOnEveryExit ==
    \A r \in Requests : Ended(r) => ~Registered(r)

\* The positions in the parent transport's queue of the entries whose
\* http_request record is that of request r.
ParentEntriesOf(r) ==
    {i \in DOMAIN TRANSPORT_PARENT.queue :
        TRANSPORT_PARENT.queue[i].http_request[1].request = r}

OwnChildEntries(r, n) ==
    {i \in DOMAIN TRANSPORT_CHILD :
        /\ TRANSPORT_CHILD[i].message = Some(<<r, n>>)
        /\ TRANSPORT_CHILD[i].trace = reqs[r].trace
        /\ TRANSPORT_CHILD[i].span_id = reqs[r].span}

C7_State ==
    USE_X_HTTP_CLOUD_CONTEXT =>
        /\ ~TRANSPORT_PARENT.exists
        /\ TRANSPORT_PARENT.queue = <<>>
        /\ \A r \in Requests :
             /\ r \in InFlight => Registered(r)
             /\ reqs[r].pc = "returned" => ~Registered(r)
             /\ \A k \in DOMAIN reqs[r].own :
                  LevelNo(reqs[r].own[k].levelname) >= LOGGER_level
                  => OwnChildEntries(r, reqs[r].own[k].n) # {}

C7_Step ==
    USE_X_HTTP_CLOUD_CONTEXT =>
        \A r \in Requests :
            (reqs[r].pc = "finalizing" /\ reqs'[r].pc = "removing")
            => MLOGLEVELS' = <<>>

\* C7: with USE_X_HTTP_CLOUD_CONTEXT true there is no parent transport and
\* nothing is ever sent as a parent entry, while every request still has its
\* handler registered from its start until it returns, has each of its lines
\* at or above the logger's level forwarded to the child transport with its
\* trace and span, and has MLOGLEVELS emptied by its make_parent_log.
C7_ExternalModeSendsNoParent == [](C7_State) /\ [][C7_Step]_vars

C7_Witness ==
    /\ USE_X_HTTP_CLOUD_CONTEXT
    /\ \E r \in Requests :
         /\ reqs[r].pc = "returned"
         /\ reqs[r].tracked # <<>>
         /\ reqs[r].span # None
         /\ \E k \in DOMAIN reqs[r].own : OwnChildEntries(r, reqs[r].own[k].n) # {}

C8_Step ==
    \A r \in Requests :
        (reqs[r].pc = "finalizing" /\ reqs'[r].pc = "removing")
        => MLOGLEVELS' = <<>>

C8_Quiescent ==
    (Requests # {} /\ \A r \in Requests : reqs[r].pc = "returned")
    => MLOGLEVELS = <<>>

C9_NoStaleStateAfterAbort ==
    \A r \in Requests :
        (reqs[r].alone /\ \E q \in 1..(r - 1) : reqs[q].pc = "raised")
        => /\ Finalized(r)
              => reqs[r].severity[1] =
                     ParentSeverity(RecordedOf(reqs[r].own), reqs[r].response[1])
           /\ \A i \in DOMAIN TRANSPORT_CHILD :
                LET e == TRANSPORT_CHILD[i]
                IN  EmitterOf(e) = r
                    => e.trace = reqs[r].trace /\ e.span_id = reqs[r].span

\* C10: when sends on the transports may raise, no logging call of the
\* application raises, and every call of __call__ whose get_response
\* returned a response ends by returning that response with its handler
\* removed from the root logger.
C10_SendFailureNeverSurfaces ==
    \A r \in Requests :
        /\ ~reqs[r].logRaised
        /\ (reqs[r].response # None /\ Ended(r))
           => /\ reqs[r].returned = reqs[r].response
              /\ ~Registered(r)

\* The header of request r is read: it is present and the mode honours it.
Honoured(r) == USE_X_HTTP_CLOUD_CONTEXT /\ reqs[r].header # None

\* The trace identifier of request r: its trace without the project prefix.
TraceId(r) == SubSeq(reqs[r].trace, 4, Len(reqs[r].trace))

\* The characters a-z and 0-9.
AlnumLower ==
    {"a", "b", "c", "d", "e", "f", "g", "h", "i", "j", "k", "l", "m",
     "n", "o", "p", "q", "r", "s", "t", "u", "v", "w", "x", "y", "z",
     "0", "1", "2", "3", "4", "5", "6", "7", "8", "9"}

\* Request r has a synthesized trace identifier and no span.
Synthesized(r) ==
    /\ Len(TraceId(r)) = 32
    /\ \A x \in DOMAIN TraceId(r) : TraceId(r)[x] \in AlnumLower
    /\ reqs[r].span = None

\* s is "<trace>/<span>" or "<trace>/<span>;<rest>" with its "/" at i and
\* its span ending before j: trace and span are not empty and hold no "/",
\* the span holds no ";".
SlashForm(s, i, j) ==
    /\ i \in 2..Len(s)
    /\ j \in (i + 2)..(Len(s) + 1)
    /\ s[i] = "/"
    /\ \A k \in 1..(i - 1) : s[k] # "/"
    /\ \A k \in (i + 1)..(j - 1) : s[k] \notin {"/", ";"}
    /\ j <= Len(s) => s[j] = ";"

\* C11: the trace of a request is projects/<PROJECT>/traces/<trace-id>; for
\* an honoured header "<trace>/<span>[;o=<flag>]" the trace-id is <trace>
\* and the span is <span>; for an honoured, non-empty header without "/" the
\* trace-id is the whole header and there is no span; for an absent or not
\* honoured header the trace-id is 32 characters of [a-z0-9] and there is
\* no span.
C11_TraceDerivation ==
    \A r \in Requests :
        /\ SubSeq(reqs[r].trace, 1, 3) = <<"projects/", "PROJECT", "/traces/">>
        /\ Honoured(r) =>
             LET s == reqs[r].header[1]
             IN  /\ \A i \in DOMAIN s, j \in 1..(Len(s) + 1) :
                      SlashForm(s, i, j)
                      => /\ TraceId(r) = SubSeq(s, 1, i - 1)
                         /\ reqs[r].span = Some(SubSeq(s, i + 1, j - 1))
                 /\ (s # <<>> /\ \A k \in DOMAIN s : s[k] # "/")
                    => TraceId(r) = s /\ reqs[r].span = None
        /\ ~Honoured(r) => Synthesized(r)

C11_Witness ==
    /\ USE_X_HTTP_CLOUD_CONTEXT
    /\ \E r \in Requests :
         /\ reqs[r].header = Some(<<"a", "/", "a", ";">>)
         /\ TraceId(r) = <<"a">>
         /\ reqs[r].span = Some(<<"a">>)

\* The honoured header s is malformed: it is empty, or its trace part (before
\* the first "/") is empty, or its span part (after the first "/") is empty.
Malformed(s) ==
    \/ s = <<>>
    \/ \E i \in DOMAIN s :
         /\ s[i] = "/"
         /\ \A k \in 1..(i - 1) : s[k] # "/"
         /\ \/ i = 1
            \/ i = Len(s)
            \/ (i < Len(s) /\ s[i + 1] \in {"/", ";"})

\* C12: a request whose honoured header is malformed gets a synthesized
\* 32-character trace-id and no span.
C12_MalformedFallsBack ==
    \A r \in Requests :
        (Honoured(r) /\ Malformed(reqs[r].header[1])) => Synthesized(r)

\* The entries of the child transport for lines logged by request r.
ChildEntriesFrom(r) ==
    {i \in DOMAIN TRANSPORT_CHILD : EmitterOf(TRANSPORT_CHILD[i]) = r}

\* A step in which request r logs a line: each registered handler records
\* the level and sends a child entry when the level is at or above the root
\* logger's, and does neither when it is below.
C13_Step ==
    \A r \in Requests :
        Len(reqs'[r].own) = Len(reqs[r].own) + 1
        => LET line == reqs'[r].own[Len(reqs'[r].own)]
               k == IF LevelNo(line.levelname) >= LOGGER_level
                    THEN Len(LOGGER_handlers)
                    ELSE 0
           IN  /\ Len(MLOGLEVELS') = Len(MLOGLEVELS) + k
               /\ SubSeq(MLOGLEVELS', 1, Len(MLOGLEVELS)) = MLOGLEVELS
               /\ \A i \in (Len(MLOGLEVELS) + 1)..Len(MLOGLEVELS') :
                    MLOGLEVELS'[i] = line.levelname
               /\ Len(TRANSPORT_CHILD') = Len(TRANSPORT_CHILD) + k
               /\ SubSeq(TRANSPORT_CHILD', 1, Len(TRANSPORT_CHILD)) = TRANSPORT_CHILD
               /\ \A i \in (Len(TRANSPORT_CHILD) + 1)..Len(TRANSPORT_CHILD') :
                    /\ TRANSPORT_CHILD'[i].message = Some(<<r, line.n>>)
                    /\ TRANSPORT_CHILD'[i].severity = line.levelname

\* For a request served with no other request in flight and no aborted
\* request before it, the severities found by make_parent_log are as many
\* as the child entries sent for the request: one per line at or above the
\* root logger's level.
C13_State ==
    \A r \in Requests :
        (reqs[r].alone /\ Finalized(r) /\ \A q \in 1..(r - 1) : reqs[q].pc # "raised")
        => /\ Len(reqs[r].tracked) = Cardinality(ChildEntriesFrom(r))
           /\ reqs[r].tracked = RecordedOf(reqs[r].own)

\* C13: a line is recorded in MLOGLEVELS exactly when its level is at or
\* above the root logger's level, and sent to the child transport under the
\* same condition; a line below it changes neither; with a single request
\* in flight the recorded severities are as many as the child entries.
C13_ThresholdOnCapture == [][C13_Step]_vars /\ [](C13_State)

C13_Witness ==
    \E r \in Requests :
        /\ reqs[r].alone
        /\ Finalized(r)
        /\ Len(reqs[r].own) = 2
        /\ reqs[r].own[1].levelname = "DEBUG"
        /\ reqs[r].own[2].levelname = "WARNING"
        /\ reqs[r].tracked = <<"WARNING">>
        /\ Cardinality(ChildEntriesFrom(r)) = 1

\* Once a request exists its header never changes, and once get_response
\* has produced its response the response never changes.
C14_Step ==
    \A r \in Requests :
        /\ reqs'[r].header = reqs[r].header
        /\ reqs[r].response # None => reqs'[r].response = reqs[r].response

\* A call that has returned has returned the response of get_response.
C14_State ==
    \A r \in Requests :
        reqs[r].pc = "returned"
        => reqs[r].response # None /\ reqs[r].returned = reqs[r].response

C15_State ==
    \A stream \in Streams :
        /\ Len(sink[stream]) <= Len(Enqueued(stream))
        /\ \A i \in 1..Len(sink[stream]) : sink[stream][i] = Enqueued(stream)[i]

\* The lines of one request forwarded by one handler are in the sink of the
\* child stream in the order the request emitted them.
C15_OwnLinesInOrder ==
    \A i, j \in 1..Len(sink["child"]) :
        /\ i < j
        /\ sink["child"][i].message[1][1] = sink["child"][j].message[1][1]
        /\ sink["child"][i].trace = sink["child"][j].trace
        => sink["child"][i].message[1][2] <= sink["child"][j].message[1][2]

\* A write to the sink adds one batch of at most BatchCap entries after
\* the entries written before.
C15_Step ==
    \A stream \in Streams :
        sink'[stream] # sink[stream]
        => /\ Len(sink'[stream]) \in
                  Len(sink[stream]) + 1 .. Len(sink[stream]) + BatchCap
           /\ SubSeq(sink'[stream], 1, Len(sink[stream])) = sink[stream]

\* C15: on each stream the entries are drained in batches and reach the
\* sink in the order in which they were enqueued; the child entries of the
\* lines of one request reach the sink in the order of the lines.
C15_FifoPerStream ==
    [](C15_State /\ C15_OwnLinesInOrder) /\ [][C15_Step]_vars

C15_Witness ==
    /\ Len(sink["child"]) = 2
    /\ Len(TRANSPORT_CHILD) >= 3
    /\ sink["child"][1].message[1][2] < sink["child"][2].message[1][2]
    /\ Len(sink["parent"]) >= 1

\* The handlers on the root logger are those of the requests inside
\* __call__, one for each.
C16_State ==
    NoAbort =>
        /\ {LOGGER_handlers[i].id : i \in DOMAIN LOGGER_handlers} = InFlight
        /\ Len(LOGGER_handlers) = Cardinality(InFlight)
        /\ \A i \in DOMAIN LOGGER_handlers :
             LET r == LOGGER_handlers[i].id
             IN  LOGGER_handlers[i] = GCPHandler(r, reqs[r].trace, reqs[r].span)

\* The step in which request r returns takes the handler of r off the
\* root logger and leaves the other handlers where they are.
C16_Step ==
    \A r \in Requests :
        (reqs[r].pc = "removing" /\ reqs'[r].pc = "returned")
        => /\ Registered(r)
           /\ LOGGER_handlers' =
                  SelectSeq(LOGGER_handlers, LAMBDA h : h.id # r)

C17_Step ==
    \A r \in Requests :
        /\ NoAbort
        /\ Len(reqs'[r].own) = Len(reqs[r].own) + 1
        /\ LevelNo(reqs'[r].own[Len(reqs'[r].own)].levelname) >= LOGGER_level
        => /\ Len(TRANSPORT_CHILD') = Len(TRANSPORT_CHILD) + 1
           /\ Len(MLOGLEVELS') = Len(MLOGLEVELS) + 1

\* C17: each line at or above the threshold is sent once on the child
\* transport and recorded once in MLOGLEVELS, however many handlers of
\* concurrent requests are on the root logger when it is logged.
C17_LineSentAndRecordedOnce == [][C17_Step]_vars

\* The trail of a request that has come to the given place in __call__.
C18_Expected(r) ==
    LET started == <<"register">> \o
                   [i \in 1..Len(RecordedOf(reqs[r].own)) |-> "child"]
        finalized == started \o
                     (IF USE_X_HTTP_CLOUD_CONTEXT
                      THEN <<"reset">> ELSE <<"reset", "parent">>)
    IN  IF reqs[r].pc \in {"active", "finalizing"} THEN started
        ELSE IF reqs[r].pc = "removing" THEN finalized
        ELSE finalized \o <<"unregister", "return">>

C18_State ==
    \A r \in Requests :
        reqs[r].pc # "raised"
        => /\ reqs[r].trail = C18_Expected(r)
           /\ ParentEntriesOf(r) # {} => reqs[r].pc \in {"removing", "returned"}
           /\ reqs[r].pc = "returned" => ~Registered(r)

\* The step in which make_parent_log of request r runs: the child entries
\* of the request's lines are on the child transport already and none is
\* added, the tracker is left empty, and the handler of r is on the root
\* logger before and after; from then on no line of r is sent.
C18_Step ==
    \A r \in Requests :
        /\ (reqs[r].pc = "finalizing" /\ reqs'[r].pc = "removing")
           => /\ Registered(r)
              /\ \E i \in DOMAIN LOGGER_handlers' : LOGGER_handlers'[i].id = r
              /\ MLOGLEVELS' = <<>>
              /\ TRANSPORT_CHILD' = TRANSPORT_CHILD
              /\ \A k \in DOMAIN reqs[r].own :
                   LevelNo(reqs[r].own[k].levelname) >= LOGGER_level
                   => OwnChildEntries(r, reqs[r].own[k].n) # {}
              /\ ~USE_X_HTTP_CLOUD_CONTEXT
                 => Len(TRANSPORT_PARENT'.queue) = Len(TRANSPORT_PARENT.queue) + 1
        /\ reqs[r].pc \in {"removing", "returned"}
           => /\ reqs'[r].own = reqs[r].own
              /\ {i \in DOMAIN TRANSPORT_CHILD' :
                     EmitterOf(TRANSPORT_CHILD'[i]) = r} = ChildEntriesFrom(r)

C19_State ==
    /\ \A i \in DOMAIN LOGGER_handlers :
         LET r == LOGGER_handlers[i].id
         IN  /\ r \in Requests
             /\ LOGGER_handlers[i].trace = reqs[r].trace
             /\ LOGGER_handlers[i].span = reqs[r].span
    /\ \A r \in Requests :
         /\ LET d == DeriveTrace(USE_X_HTTP_CLOUD_CONTEXT, reqs[r].header,
                                 RandomTrace(r))
            IN  reqs[r].trace = d.trace /\ reqs[r].span = d.span
         /\ \A i \in ParentEntriesOf(r) :
              /\ TRANSPORT_PARENT.queue[i].trace = reqs[r].trace
              /\ TRANSPORT_PARENT.queue[i].span_id = reqs[r].span
              /\ \A n \in 1..MaxLines : \A j \in OwnChildEntries(r, n) :
                   /\ TRANSPORT_CHILD[j].trace = TRANSPORT_PARENT.queue[i].trace
                   /\ TRANSPORT_CHILD[j].span_id = TRANSPORT_PARENT.queue[i].span_id

\* The trace and span of a request and of a registered handler never
\* change, and the child entries sent in a step carry, handler by handler,
\* the trace and span of the handlers on the root logger.
C19_Step ==
    /\ \A r \in Requests :
         reqs'[r].trace = reqs[r].trace /\ reqs'[r].span = reqs[r].span
    /\ \A i \in DOMAIN LOGGER_handlers, j \in DOMAIN LOGGER_handlers' :
         LOGGER_handlers'[j].id = LOGGER_handlers[i].id
         => LOGGER_handlers'[j] = LOGGER_handlers[i]
    /\ Len(TRANSPORT_CHILD') > Len(TRANSPORT_CHILD)
       => /\ Len(TRANSPORT_CHILD') = Len(TRANSPORT_CHILD) + Len(LOGGER_handlers)
          /\ \A i \in DOMAIN LOGGER_handlers :
               LET e == TRANSPORT_CHILD'[Len(TRANSPORT_CHILD) + i]
                   r == LOGGER_handlers[i].id
               IN  e.trace = reqs[r].trace /\ e.span_id = reqs[r].span

\* C19: the trace and span derived when a request starts are those of its
\* handler for as long as the handler exists, of every child entry the
\* handler forwards and of the request's parent entry, which so carry the
\* same trace and span.
C19_TraceStable == [](C19_State) /\ [][C19_Step]_vars

C19_Witness ==
    \E r \in Requests :
        /\ ~reqs[r].alone
        /\ \E i \in ParentEntriesOf(r), n \in 1..MaxLines :
             OwnChildEntries(r, n) # {}

====
